---- MODULE Spec2Model ----
(***************************************************************************)
(* CAM4 standalone status checker and recorder.                            *)
(*                                                                         *)
(* One CAM4Standalone object serves one call of check_performer or         *)
(* record_stream.  The two copies of the class (src/cam4_standalone.py,    *)
(* "root", and src/standalone/cam4_standalone.py, "standalone") are both   *)
(* modelled; the variable impl says which one the object is.               *)
(*                                                                         *)
(* Text is modelled as a sequence of chunks (one-character strings for the *)
(* URL path, words for a response body), so that lower(), the regular      *)
(* expression and the substring tests are computed, not assumed.           *)
(***************************************************************************)
EXTENDS Naturals, Sequences, FiniteSets

VARIABLES
    impl,              \* which copy of CAM4Standalone: "root" or "standalone"
    use_flaresolverr,  \* standalone: self._use_flaresolverr and self._flaresolverr
    op,                \* the public method called: "none", "check_performer", "record_stream"
    url,               \* its url argument
    pc,                \* "idle", "profile", "streamInfo", "probe" (a request is in flight), "done"
    via,               \* transport of the request in flight: "none", "flaresolverr", "session"
    requests,          \* the network requests issued by the call, in order
    responses,         \* what the transport handed back for each step, in order
    username,          \* check_performer's locals
    thumbnail_url,
    profile,
    stream_info,
    cdn_url,
    info,              \* the PerformerInfo check_performer returned, or NoInfo
    exc,               \* the exception that left the called method, or NoExc
    process            \* the argv handed to subprocess.Popen, or NoProcess

vars == <<impl, use_flaresolverr, op, url, pc, via, requests, responses, username,
          thumbnail_url, profile, stream_info, cdn_url, info, exc, process>>

-----------------------------------------------------------------------------
(* Bounds and input alphabets *)

\* longest URL path (the text after "host/") that is enumerated
MaxPathLen == 1

\* "U+017F" stands for the one character LATIN SMALL LETTER LONG S
PathChars == {"a", "Z", "_", "-", "U+017F"}

RECURSIVE SeqsUpTo(_, _)
SeqsUpTo(S, n) ==
    IF n = 0 THEN {<<>>}
    ELSE LET shorter == SeqsUpTo(S, n - 1)
         IN  shorter \cup {Append(s, c) : s \in {t \in shorter : Len(t) = n - 1}, c \in S}

Paths == SeqsUpTo(PathChars, MaxPathLen)

Url(scheme, host, path) == [scheme |-> scheme, host |-> host, path |-> path]

\* The URLs a caller passes: every path on the canonical host, and the
\* variations of scheme and host on one path.
URLs ==
    {Url("https", <<"www", "cam4", "com">>, p) : p \in Paths}
    \cup {Url(s, h, <<"a">>) :
            s \in {"https", "HTTP", "ftp"},
            h \in {<<"www", "cam4", "com">>, <<"CAM4", "com">>, <<"evilcam4", "com">>}}
    \cup {Url("http", <<"cam4", "com">>, <<"Z", "-", "a">>)}

-----------------------------------------------------------------------------
(* Python values *)

None == "None"
Absent == "<absent>"       \* a key that a dict does not have

\* PerformerStatus (root 34-40, standalone 50-56)
NOT_FOUND == "not_found"
OFFLINE == "offline"
ONLINE_NOT_STREAMING == "online_not_streaming"
PRIVATE_OR_AWAY == "private_or_away"
STREAMING == "streaming"
PerformerStatus == {NOT_FOUND, OFFLINE, ONLINE_NOT_STREAMING, PRIVATE_OR_AWAY, STREAMING}

\* PerformerInfo: stream_url, thumbnail_url and error_message default to None
\* (None is "None" for a str field that holds one token, <<>> for formatted text)
PerformerInfo(u, status, stream_url, thumb, message) ==
    [username |-> u, status |-> status, stream_url |-> stream_url,
     thumbnail_url |-> thumb, error_message |-> message]

NoInfo == PerformerInfo(<<>>, "none", None, <<>>, <<>>)

\* CAM4Error(message, status)
CAM4Error(message, status) == [type |-> "CAM4Error", status |-> status, message |-> message]

\* 'list' object has no attribute 'get'
AttributeError == [type |-> "AttributeError", status |-> "none", message |-> <<>>]

\* subprocess.Popen cannot start ffmpeg
OSError == [type |-> "OSError", status |-> "none", message |-> <<>>]

NoExc == [type |-> "none", status |-> "none", message |-> <<>>]

NoProcess == <<>>

-----------------------------------------------------------------------------
(* Parsed JSON documents.  kind is the Python type json() returns (or       *)
(* "invalid" when the body does not parse); an object carries the values   *)
(* of the two keys the code reads and whether it has any other key.        *)

Doc(kind, online, cdnURL, other) ==
    [kind |-> kind, online |-> online, cdnURL |-> cdnURL, other |-> other]

NoneDoc == Doc("None", Absent, Absent, FALSE)
Invalid == Doc("invalid", Absent, Absent, FALSE)
Object(online, cdnURL, other) == Doc("dict", online, cdnURL, other)

\* Python truth value of a scalar
TruthyValue(v) == v \notin {None, "False", "0", "''"}

\* Python truth value of a parsed document
Truthy(d) ==
    CASE d.kind = "dict" -> d.online # Absent \/ d.cdnURL # Absent \/ d.other
      [] d.kind \in {"None", "False", "0", "[]"} -> FALSE
      [] OTHER -> TRUE

\* dict.get(key, default)
Get(d, key, default) ==
    LET v == IF key = "online" THEN d.online ELSE d.cdnURL
    IN  IF v = Absent THEN default ELSE v

CdnUrls == {"https://cdn/x.m3u8"}

ProfileDocs ==
    {Invalid, NoneDoc, Doc("[]", Absent, Absent, FALSE), Doc("[1]", Absent, Absent, FALSE),
     Doc("True", Absent, Absent, FALSE)}
    \cup {Object(o, Absent, other) : o \in {Absent, "False", "True", None, "1"},
                                     other \in BOOLEAN}

StreamDocs ==
    {Invalid, NoneDoc, Doc("[]", Absent, Absent, FALSE), Doc("[1]", Absent, Absent, FALSE),
     Doc("7", Absent, Absent, FALSE)}
    \cup {Object(Absent, c, other) : c \in {Absent, None, "''"} \cup CdnUrls,
                                     other \in BOOLEAN}

JsonStatus == {200, 204, 404, 500}
ProbeStatus == {200, 400, 403, 404}

\* Bodies of the probed playlist URL, as sequences of chunks
ProbeTexts ==
    { <<"#EXTM3U", "\n">>,
      <<"\n", "#EXTM3U">>,
      <<"#extm3u", "\n">>,
      <<>>,
      <<"<html>">>,
      <<"Session is ", "not allowed", " to view", " this stream">>,
      <<"SESSION IS ", "NOT ALLOWED">>,
      <<"#EXTM3U", "\n", "Not Allowed", " To View">>,
      <<"not allowed", "\n", " to view">> }

\* What a transport hands back: a response, or (fault) an exception
Response(status, json, text) == [fault |-> FALSE, status |-> status, json |-> json, text |-> text]
Fault == [fault |-> TRUE, status |-> 0, json |-> Invalid, text |-> <<>>]

ProfileResponses == {Response(s, d, <<>>) : s \in JsonStatus, d \in ProfileDocs} \cup {Fault}
StreamResponses == {Response(s, d, <<>>) : s \in JsonStatus, d \in StreamDocs} \cup {Fault}
ProbeResponses == {Response(s, Invalid, t) : s \in ProbeStatus, t \in ProbeTexts} \cup {Fault}

-----------------------------------------------------------------------------
(* str.lower() and the regular expression of extract_username *)

\* str.lower() of one chunk (LONG S is already lower case)
LowerChunk(c) ==
    CASE c = "Z" -> "z"
      [] c = "HTTP" -> "http"
      [] c = "CAM4" -> "cam4"
      [] c = "Session is " -> "session is "
      [] c = "SESSION IS " -> "session is "
      [] c = "NOT ALLOWED" -> "not allowed"
      [] c = "Not Allowed" -> "not allowed"
      [] c = " To View" -> " to view"
      [] c = "#EXTM3U" -> "#extm3u"
      [] OTHER -> c

\* str.lower() of a text
Lower(t) == [i \in 1..Len(t) |-> LowerChunk(t[i])]

\* needle in text (contiguous chunks)
Contains(text, needle) ==
    \E i \in 0..(Len(text) - Len(needle)) :
        \A j \in 1..Len(needle) : text[i + j] = needle[j]

\* The characters [a-z0-9_] matches under re.IGNORECASE: the ASCII letters of
\* both cases and, for a str pattern, LONG S among four non-ASCII letters.
IdClassIgnoreCase == {"a", "z", "Z", "_", "U+017F"}

\* (?P<id>[a-z0-9_]+) is greedy: the longest prefix of the path in the class
RECURSIVE IdGroup(_)
IdGroup(path) ==
    IF path = <<>> \/ Head(path) \notin IdClassIgnoreCase THEN <<>>
    ELSE <<Head(path)>> \o IdGroup(Tail(path))

\* https?:// under re.IGNORECASE
SchemeMatches(scheme) == LowerChunk(scheme) \in {"http", "https"}

\* (?:[^/]+\.)?cam4\.com/ : the host ends with the labels cam4.com, after
\* nothing or after any text ending with a dot
HostMatches(host) ==
    /\ Len(host) >= 2
    /\ LowerChunk(host[Len(host) - 1]) = "cam4"
    /\ LowerChunk(host[Len(host)]) = "com"

\* re.match(VALID_URL_PATTERN, url, re.IGNORECASE).group('id'); <<>> for no match
re_match(u) ==
    IF SchemeMatches(u.scheme) /\ HostMatches(u.host) THEN IdGroup(u.path) ELSE <<>>

\* extract_username's return value when the pattern matched
extract_username(u) == Lower(re_match(u))

\* The text of a URL
RECURSIVE Dotted(_)
Dotted(host) ==
    IF Len(host) <= 1 THEN host ELSE <<Head(host), ".">> \o Dotted(Tail(host))

UrlText(u) == <<u.scheme, "://">> \o Dotted(u.host) \o <<"/">> \o u.path

\* extract_username's CAM4Error(f"Invalid CAM4 URL: {url}", NOT_FOUND)
BadStatusUrlError(u) == CAM4Error(<<"Invalid CAM4 URL: ">> \o UrlText(u), OFFLINE)
InvalidUrlError(u) == CAM4Error(<<"Invalid CAM4 URL: ">> \o UrlText(u), NOT_FOUND)

BASE_API_URL == "https://www.cam4.com/rest/v1.0/profile"
THUMBNAIL_BASE_URL == "https://snapshots.xcdnpro.com/thumbnails"

\* f"{self.THUMBNAIL_BASE_URL}/{username}"
BareThumbnailUrl(u) == <<THUMBNAIL_BASE_URL, "/">>
ThumbnailUrl(u) == <<THUMBNAIL_BASE_URL, "/">> \o u

\* f"{self.BASE_API_URL}/{username}/info" and .../streamInfo
ApiUrl(u, leaf) == <<BASE_API_URL, "/">> \o u \o <<"/", leaf>>

\* f"{username}: {text}"
Fmt(u, text) == u \o <<": ">> \o text

-----------------------------------------------------------------------------
(* The three lookups, as functions of what the transport handed back *)

\* Response.raise_for_status() raises
raise_for_status(status) == status >= 400

\* root get_profile_info: None for a 404, an HTTP error, an unparsable body
\* and a RequestException; else whatever json() returns
LaxProfileInfo(r) ==
    IF r.fault \/ r.json.kind = "invalid" THEN NoneDoc ELSE r.json
get_profile_info(r) ==
    IF r.fault THEN NoneDoc
    ELSE IF r.status = 404 THEN NoneDoc
    ELSE IF raise_for_status(r.status) THEN NoneDoc
    ELSE IF r.json.kind = "invalid" THEN NoneDoc
    ELSE r.json

\* standalone get_profile_info: the same steps under a bare except
standalone_get_profile_info(r) ==
    IF r.fault THEN NoneDoc
    ELSE IF r.status = 404 THEN NoneDoc
    ELSE IF raise_for_status(r.status) THEN NoneDoc
    ELSE IF r.json.kind = "invalid" THEN NoneDoc
    ELSE r.json

\* root get_stream_info: None for 204, 404, an HTTP error, an unparsable or
\* falsy body and a RequestException
LaxStreamInfo(r) ==
    IF r.fault \/ r.status = 404 \/ r.json.kind = "invalid" THEN NoneDoc
    ELSE IF Truthy(r.json) THEN r.json ELSE NoneDoc
get_stream_info(r) ==
    IF r.fault THEN NoneDoc
    ELSE IF r.status = 204 THEN NoneDoc
    ELSE IF r.status = 404 THEN NoneDoc
    ELSE IF raise_for_status(r.status) THEN NoneDoc
    ELSE IF r.json.kind = "invalid" THEN NoneDoc
    ELSE IF Truthy(r.json) THEN r.json ELSE NoneDoc

\* standalone get_stream_info: response.json() or None, under a bare except
standalone_get_stream_info(r) ==
    IF r.fault THEN NoneDoc
    ELSE IF r.status \in {204, 404} THEN NoneDoc
    ELSE IF raise_for_status(r.status) THEN NoneDoc
    ELSE IF r.json.kind = "invalid" THEN NoneDoc
    ELSE IF Truthy(r.json) THEN r.json ELSE NoneDoc

PRIVATE_MESSAGE == <<"Stream not accessible - performer may be in a private show or away">>
INVALID_MESSAGE == <<"Invalid stream response">>
ACCESS_ERROR == <<"Error accessing stream: ", "RequestException">>

\* root verify_stream_accessible: (is_accessible, error_message)
FaultAcceptingProbe(r) ==
    IF r.fault THEN <<TRUE, <<>> >>
    ELSE LET content == Lower(r.text)
         IN  IF \/ Contains(content, <<"not allowed", " to view">>)
                \/ Contains(content, <<"session is ", "not allowed">>)
             THEN <<FALSE, PRIVATE_MESSAGE>>
             ELSE IF r.status \in {400, 403} THEN <<FALSE, PRIVATE_MESSAGE>>
             ELSE IF Contains(r.text, <<"#EXTM3U">>) THEN <<TRUE, <<>> >>
             ELSE <<FALSE, INVALID_MESSAGE>>
HeaderFirstProbe(r) ==
    IF r.fault THEN <<FALSE, ACCESS_ERROR>>
    ELSE LET content == Lower(r.text)
         IN  IF \/ Contains(content, <<"not allowed", " to view">>)
                \/ Contains(content, <<"session is ", "not allowed">>)
             THEN <<FALSE, PRIVATE_MESSAGE>>
             ELSE IF Contains(r.text, <<"#EXTM3U">>) THEN <<TRUE, <<>> >>
             ELSE IF r.status \in {400, 403} THEN <<FALSE, PRIVATE_MESSAGE>>
             ELSE <<FALSE, INVALID_MESSAGE>>
OkOnlyProbe(r) ==
    IF r.fault THEN <<FALSE, ACCESS_ERROR>>
    ELSE LET content == Lower(r.text)
         IN  IF \/ Contains(content, <<"not allowed", " to view">>)
                \/ Contains(content, <<"session is ", "not allowed">>)
             THEN <<FALSE, PRIVATE_MESSAGE>>
             ELSE IF r.status # 200 THEN <<FALSE, PRIVATE_MESSAGE>>
             ELSE IF Contains(r.text, <<"#EXTM3U">>) THEN <<TRUE, <<>> >>
             ELSE <<FALSE, INVALID_MESSAGE>>
StatusFirstProbe(r) ==
    IF r.fault THEN <<FALSE, ACCESS_ERROR>>
    ELSE IF r.status \in {400, 403} THEN <<FALSE, PRIVATE_MESSAGE>>
    ELSE IF Contains(r.text, <<"#EXTM3U">>) THEN <<TRUE, <<>> >>
    ELSE IF \/ Contains(Lower(r.text), <<"not allowed", " to view">>)
            \/ Contains(Lower(r.text), <<"session is ", "not allowed">>)
         THEN <<FALSE, PRIVATE_MESSAGE>>
    ELSE <<FALSE, INVALID_MESSAGE>>
verify_stream_accessible(r) ==
    IF r.fault THEN <<FALSE, ACCESS_ERROR>>
    ELSE LET content == Lower(r.text)
         IN  IF \/ Contains(content, <<"not allowed", " to view">>)
                \/ Contains(content, <<"session is ", "not allowed">>)
             THEN <<FALSE, PRIVATE_MESSAGE>>
             ELSE IF r.status \in {400, 403} THEN <<FALSE, PRIVATE_MESSAGE>>
             ELSE IF Contains(r.text, <<"#EXTM3U">>) THEN <<TRUE, <<>> >>
             ELSE <<FALSE, INVALID_MESSAGE>>

\* standalone verify_stream_accessible (any Exception is caught)
standalone_verify_stream_accessible(r) ==
    IF r.fault THEN <<FALSE, ACCESS_ERROR>>
    ELSE LET content == Lower(r.text)
         IN  IF \/ Contains(content, <<"not allowed", " to view">>)
                \/ Contains(content, <<"session is ", "not allowed">>)
             THEN <<FALSE, PRIVATE_MESSAGE>>
             ELSE IF r.status \in {400, 403} THEN <<FALSE, PRIVATE_MESSAGE>>
             ELSE IF Contains(r.text, <<"#EXTM3U">>) THEN <<TRUE, <<>> >>
             ELSE <<FALSE, INVALID_MESSAGE>>

-----------------------------------------------------------------------------
(* check_performer's results, one per return statement *)

NotFoundResult(u) ==
    PerformerInfo(u, NOT_FOUND, None, <<>>, Fmt(u, <<"Performer not found">>))

OfflineResultNoThumb(u, thumb) ==
    PerformerInfo(u, OFFLINE, None, <<>>, Fmt(u, <<"Performer is currently offline">>))
OfflineResult(u, thumb) ==
    PerformerInfo(u, OFFLINE, None, thumb, Fmt(u, <<"Performer is currently offline">>))

NotStreamingResult(u, thumb) ==
    PerformerInfo(u, ONLINE_NOT_STREAMING, None, thumb,
                  Fmt(u, <<"Performer is online but not currently streaming">>))

\* root: a descriptor without cdnURL has a message of its own
NoPlaylistResult(u, thumb) ==
    PerformerInfo(u, ONLINE_NOT_STREAMING, None, thumb,
                  Fmt(u, <<"Stream info found but no playlist URL available">>))

PrivateResult(u, thumb, error) ==
    PerformerInfo(u, PRIVATE_OR_AWAY, None, thumb, Fmt(u, error))

StreamingResult(u, thumb, cdn) ==
    PerformerInfo(u, STREAMING, cdn, thumb, <<>>)

\* check_performer: "if not cdn_url" is false
CdnUrlNotNone(s) == Get(s, "cdnURL", None) # None
HasCdnUrl(s) == TruthyValue(Get(s, "cdnURL", None))

\* check_performer: "if not is_online" is false
IsOnlineNotFalse(p) == Get(p, "online", "False") # "False"
IsOnline(p) == TruthyValue(Get(p, "online", "False"))

\* record_stream: if info.status != PerformerStatus.STREAMING: raise CAM4Error(...)
RecordRefusesNotFound(i) == i.status = NOT_FOUND
RecordRefuses(i) == i.status # STREAMING
RecordError(i) == CAM4Error(i.error_message, i.status)

\* record_stream's cmd, without the output path
FfmpegCmd(i) == <<"ffmpeg", "-i", i.stream_url, "-c:v", "copy", "-c:a", "copy", "-y">>

-----------------------------------------------------------------------------
(* The object and its calls *)

\* __init__: the root copy has one transport; the standalone copy takes
\* FlareSolverr first when it was asked to and the service answered /health
Init ==
    /\ impl \in {"root", "standalone"}
    /\ use_flaresolverr \in BOOLEAN
    /\ impl = "root" => ~use_flaresolverr
    /\ op = "none"
    /\ url = Url("", <<>>, <<>>)
    /\ pc = "idle"
    /\ via = "none"
    /\ requests = <<>>
    /\ responses = <<>>
    /\ username = <<>>
    /\ thumbnail_url = <<>>
    /\ profile = NoneDoc
    /\ stream_info = NoneDoc
    /\ cdn_url = None
    /\ info = NoInfo
    /\ exc = NoExc
    /\ process = NoProcess

\* _make_request: the transport tried first
Transport == IF impl = "standalone" /\ use_flaresolverr THEN "flaresolverr" ELSE "session"

\* a request of the call goes out
Issue(step, target) ==
    /\ pc' = step
    /\ via' = Transport
    /\ requests' = Append(requests, [step |-> step, via |-> Transport, target |-> target])

\* check_performer returns i; record_stream goes on from there
Finish(i) ==
    /\ pc' = "done"
    /\ via' = "none"
    /\ info' = i
    /\ IF op = "check_performer"
       THEN exc' = NoExc /\ process' = NoProcess
       ELSE IF RecordRefuses(i)
            THEN exc' = RecordError(i) /\ process' = NoProcess
            ELSE /\ process' = FfmpegCmd(i)
                 /\ exc' \in {NoExc, OSError}

\* an exception leaves check_performer, and record_stream with it
Raise(e) ==
    /\ pc' = "done"
    /\ via' = "none"
    /\ exc' = e
    /\ UNCHANGED <<info, process>>

\* check_performer(u) or record_stream(u) up to the profile request
Call(o, u) ==
    /\ pc = "idle"
    /\ op' = o
    /\ url' = u
    /\ UNCHANGED <<impl, use_flaresolverr, responses, profile, stream_info, cdn_url>>
    /\ IF re_match(u) = <<>>
       THEN /\ Raise(InvalidUrlError(u))
            /\ UNCHANGED <<requests, username, thumbnail_url>>
       ELSE /\ username' = extract_username(u)
            /\ thumbnail_url' = ThumbnailUrl(extract_username(u))
            /\ Issue("profile", ApiUrl(extract_username(u), "info"))
            /\ UNCHANGED <<info, exc, process>>

\* _make_request: FlareSolverrClient.get raised; the request goes out again
\* through self.session
FlareSolverrFails ==
    /\ pc \in {"profile", "streamInfo", "probe"}
    /\ via = "flaresolverr"
    /\ via' = "session"
    /\ requests' = Append(requests, [step |-> pc, via |-> "session",
                                     target |-> requests[Len(requests)].target])
    /\ UNCHANGED <<impl, use_flaresolverr, op, url, pc, responses, username, thumbnail_url,
                   profile, stream_info, cdn_url, info, exc, process>>

\* FlareSolverr hands back a response; only self.session.get can raise
Delivers(r) == r.fault => via = "session"

\* the profile request ends with r: check_performer up to the next request
ProfileDone(r) ==
    /\ pc = "profile"
    /\ Delivers(r)
    /\ responses' = Append(responses, r)
    /\ LET p == IF impl = "root" THEN get_profile_info(r)
                ELSE standalone_get_profile_info(r)
       IN  /\ profile' = p
           /\ IF ~Truthy(p)
              THEN Finish(NotFoundResult(username)) /\ UNCHANGED requests
              ELSE IF p.kind # "dict"
              THEN Raise(AttributeError) /\ UNCHANGED requests
              ELSE IF ~IsOnline(p)
              THEN Finish(OfflineResult(username, thumbnail_url)) /\ UNCHANGED requests
              ELSE /\ Issue("streamInfo", ApiUrl(username, "streamInfo"))
                   /\ UNCHANGED <<info, exc, process>>
    /\ UNCHANGED <<impl, use_flaresolverr, op, url, username, thumbnail_url,
                   stream_info, cdn_url>>

\* the stream-descriptor request ends with r
StreamInfoDone(r) ==
    /\ pc = "streamInfo"
    /\ Delivers(r)
    /\ responses' = Append(responses, r)
    /\ LET s == IF impl = "root" THEN get_stream_info(r)
                ELSE standalone_get_stream_info(r)
       IN  /\ stream_info' = s
           /\ IF ~Truthy(s)
              THEN /\ Finish(NotStreamingResult(username, thumbnail_url))
                   /\ UNCHANGED <<requests, cdn_url>>
              ELSE IF s.kind # "dict"
              THEN Raise(AttributeError) /\ UNCHANGED <<requests, cdn_url>>
              ELSE IF ~HasCdnUrl(s)
              THEN /\ Finish(IF impl = "root"
                             THEN NoPlaylistResult(username, thumbnail_url)
                             ELSE NotStreamingResult(username, thumbnail_url))
                   /\ cdn_url' = IF impl = "root" THEN Get(s, "cdnURL", None) ELSE cdn_url
                   /\ UNCHANGED requests
              ELSE /\ cdn_url' = Get(s, "cdnURL", None)
                   /\ Issue("probe", <<Get(s, "cdnURL", None)>>)
                   /\ UNCHANGED <<info, exc, process>>
    /\ UNCHANGED <<impl, use_flaresolverr, op, url, username, thumbnail_url, profile>>

\* the probe of the playlist URL ends with r
ProbeDone(r) ==
    /\ pc = "probe"
    /\ Delivers(r)
    /\ responses' = Append(responses, r)
    /\ LET v == IF impl = "root" THEN verify_stream_accessible(r)
                ELSE standalone_verify_stream_accessible(r)
       IN  IF ~v[1]
           THEN Finish(PrivateResult(username, thumbnail_url, v[2]))
           ELSE Finish(StreamingResult(username, thumbnail_url, cdn_url))
    /\ UNCHANGED <<impl, use_flaresolverr, op, url, requests, username, thumbnail_url,
                   profile, stream_info, cdn_url>>

-----------------------------------------------------------------------------
(* check_performer as a function of the responses, for each copy *)

\* the status check_performer(url) returns in copy c when the transport hands
\* back rs; "AttributeError" when it raises, "pending" when it needs more
Classify(c, rs) ==
    IF Len(rs) < 1 THEN "pending"
    ELSE LET p == IF c = "root" THEN get_profile_info(rs[1])
                  ELSE standalone_get_profile_info(rs[1])
         IN  IF ~Truthy(p) THEN NOT_FOUND
             ELSE IF p.kind # "dict" THEN "AttributeError"
             ELSE IF ~IsOnline(p) THEN OFFLINE
             ELSE IF Len(rs) < 2 THEN "pending"
             ELSE LET s == IF c = "root" THEN get_stream_info(rs[2])
                           ELSE standalone_get_stream_info(rs[2])
                  IN  IF ~Truthy(s) THEN ONLINE_NOT_STREAMING
                      ELSE IF s.kind # "dict" THEN "AttributeError"
                      ELSE IF ~HasCdnUrl(s) THEN ONLINE_NOT_STREAMING
                      ELSE IF Len(rs) < 3 THEN "pending"
                      ELSE LET v == IF c = "root" THEN verify_stream_accessible(rs[3])
                                    ELSE standalone_verify_stream_accessible(rs[3])
                           IN  IF v[1] THEN STREAMING ELSE PRIVATE_OR_AWAY

-----------------------------------------------------------------------------
(* The yt-dlp extractor CAM4IE *)

\* [a-z0-9_] of _VALID_URL, which is matched without re.IGNORECASE
IdClass == {"a", "z", "_"}

RECURSIVE ie_IdGroup(_)
ie_IdGroup(path) ==
    IF path = <<>> \/ Head(path) \notin IdClass THEN <<>>
    ELSE <<Head(path)>> \o ie_IdGroup(Tail(path))

\* InfoExtractor._match_id(url): the id group of _VALID_URL; <<>> for no match
ie_match_id(u) ==
    IF /\ u.scheme \in {"http", "https"}
       /\ Len(u.host) >= 2
       /\ u.host[Len(u.host) - 1] = "cam4"
       /\ u.host[Len(u.host)] = "com"
    THEN ie_IdGroup(u.path) ELSE <<>>

\* InfoExtractor._download_json(url, id, fatal=False, expected_status=...):
\* False for a transport fault and for an HTTP error whose status is not
\* expected, None for a body that does not parse, else the parsed body (the
\* body of an expected error status is parsed like any other)
download_json(r, expected_status) ==
    IF r.fault THEN NoneDoc
    ELSE IF r.status >= 400 /\ r.status \notin expected_status THEN NoneDoc
    ELSE IF r.json.kind = "invalid" THEN NoneDoc
    ELSE r.json

\* what _real_extract comes to
Extraction(kind, message, cdn, thumbnail) ==
    [kind |-> kind, message |-> message, cdn |-> cdn, thumbnail |-> thumbnail]

\* raise ExtractorError(message, expected=True)
ExtractorError(message) == Extraction("ExtractorError", message, None, <<>>)

\* CAM4IE._real_extract(url) when the two lookups hand back rs; kind is
\* "ExtractorError", "AttributeError", "formats" (it goes on to the playlist)
\* or "pending" (it needs a response rs does not hold)
real_extract(u, rs) ==
    LET channel_id == ie_match_id(u)
        pending == Extraction("pending", <<>>, None, <<>>)
    IN  IF Len(rs) < 1 THEN pending
        ELSE LET profile_info == download_json(rs[1], {404})
             IN  IF ~Truthy(profile_info)
                 THEN ExtractorError(channel_id \o <<": ", "Performer not found">>)
                 ELSE IF profile_info.kind # "dict"
                 THEN Extraction("AttributeError", <<>>, None, <<>>)
                 ELSE IF ~TruthyValue(Get(profile_info, "online", "False"))
                 THEN ExtractorError(channel_id \o <<": ", "Performer is currently offline">>)
                 ELSE IF Len(rs) < 2 THEN pending
                 ELSE LET info_ == download_json(rs[2], {204, 404})
                      IN  IF ~Truthy(info_)
                          THEN ExtractorError(channel_id \o
                                   <<": ", "Performer is online but not currently streaming">>)
                          ELSE IF info_.kind # "dict"
                          THEN Extraction("AttributeError", <<>>, None, <<>>)
                          ELSE IF ~TruthyValue(Get(info_, "cdnURL", None))
                          THEN ExtractorError(channel_id \o
                                   <<": ", "Stream info found but no playlist URL available">>)
                          ELSE Extraction("formats", <<>>, Get(info_, "cdnURL", None),
                                   <<"https://snapshots.xcdnpro.com/thumbnails", "/">>
                                       \o channel_id)

Next ==
    \/ \E o \in {"check_performer", "record_stream"}, u \in URLs : Call(o, u)
    \/ FlareSolverrFails
    \/ \E r \in ProfileResponses : ProfileDone(r)
    \/ \E r \in StreamResponses : StreamInfoDone(r)
    \/ \E r \in ProbeResponses : ProbeDone(r)

Spec == Init /\ [][Next]_vars

\* the request in flight ends: every session.get carries timeout=10 and the
\* POST to FlareSolverr timeout=60, so no request stays in flight for ever
Completes ==
    \/ FlareSolverrFails
    \/ \E r \in ProfileResponses : ProfileDone(r)
    \/ \E r \in StreamResponses : StreamInfoDone(r)
    \/ \E r \in ProbeResponses : ProbeDone(r)

FairSpec == Spec /\ WF_vars(Completes)

-----------------------------------------------------------------------------
(* Properties *)

Done == pc = "done"

\* check_performer returned a PerformerInfo
Returned == Done /\ info # NoInfo

\* the identifier pattern ^[a-z0-9_]+$
IsIdentifier(u) == u # <<>> /\ \A i \in 1..Len(u) : u[i] \in {"a", "z", "_"}

\* <thumbnail-base>/{identifier}
ThumbnailTemplate(u) == <<"https://snapshots.xcdnpro.com/thumbnails", "/">> \o u

\* the body carries the private-gate phrase in some letter case
PrivateGate(text) ==
    \/ Contains(Lower(text), <<"not allowed", " to view">>)
    \/ Contains(Lower(text), <<"session is ", "not allowed">>)

\* the body carries the playlist header
PlaylistHeader(text) == Contains(text, <<"#EXTM3U">>)

\* the steps requested so far
StepsRequested == {requests[i].step : i \in 1..Len(requests)}

\* C1 (as claimed): for a URL with a valid identifier, check_performer ends by
\* returning a result whose status is one of the five states, whatever the
\* three upstream calls did.
C1_AlwaysReturnsAState ==
    (Done /\ re_match(url) # <<>> /\ IsIdentifier(username))
        => info.status \in PerformerStatus

\* C2 (as claimed): for a URL that does not match the pattern, check_performer
\* returns a result with status NOT_FOUND and issues no request.
C2_InvalidUrlReturnsNotFound ==
    (Done /\ re_match(url) = <<>>)
        => (info.status = NOT_FOUND /\ requests = <<>>)

\* C2 (amended): for a URL that does not match the pattern, the call returns
\* no result: it raises CAM4Error with status NOT_FOUND and the message
\* "Invalid CAM4 URL: <url>", and it issues no request and starts no process.
C2_InvalidUrlRaisesNotFound ==
    (Done /\ re_match(url) = <<>>)
        => /\ info = NoInfo
           /\ exc.type = "CAM4Error"
           /\ exc.status = NOT_FOUND
           /\ exc.message = <<"Invalid CAM4 URL: ">> \o UrlText(url)
           /\ requests = <<>>
           /\ responses = <<>>
           /\ process = NoProcess

C2_Witness ==
    /\ Done
    /\ op = "check_performer"
    /\ url.host = <<"evilcam4", "com">>
    /\ exc.status = NOT_FOUND

\* C3 (as claimed): a probed body with the playlist header and no private-gate
\* phrase gives STREAMING with stream_url equal to the descriptor's cdnURL,
\* for every status code of the probe.
C3_PlaylistIsStreaming ==
    (Len(responses) = 3 /\ ~responses[3].fault
       /\ PlaylistHeader(responses[3].text) /\ ~PrivateGate(responses[3].text))
        => /\ info.status = STREAMING
           /\ info.stream_url = responses[2].json.cdnURL

\* C3 (amended): a probed body with the playlist header and no private-gate
\* phrase gives STREAMING with stream_url equal to the descriptor's cdnURL,
\* for every status code of the probe other than 400 and 403.
C3_PlaylistIsStreamingUnless400Or403 ==
    (Len(responses) = 3 /\ ~responses[3].fault
       /\ responses[3].status \notin {400, 403}
       /\ PlaylistHeader(responses[3].text) /\ ~PrivateGate(responses[3].text))
        => /\ Done
           /\ info.status = STREAMING
           /\ info.stream_url = responses[2].json.cdnURL

C3_Witness ==
    /\ Len(responses) = 3
    /\ responses[3].status = 404
    /\ responses[3].text = <<"\n", "#EXTM3U">>
    /\ info.status = STREAMING
    /\ info.stream_url = "https://cdn/x.m3u8"

\* C4: a probed body with the private-gate phrase in any letter case gives
\* PRIVATE_OR_AWAY whatever the probe's status code, 200 included, and also
\* when the body carries the playlist header.
C4_PrivateGateWins ==
    (Len(responses) = 3 /\ ~responses[3].fault /\ PrivateGate(responses[3].text))
        => /\ Done
           /\ info.status = PRIVATE_OR_AWAY
           /\ info.stream_url = None

C4_Witness ==
    /\ Len(responses) = 3
    /\ responses[3].status = 200
    /\ responses[3].text = <<"#EXTM3U", "\n", "Not Allowed", " To View">>
    /\ info.status = PRIVATE_OR_AWAY

\* C5 (as claimed): every result returned for a URL whose identifier was
\* extracted carries the thumbnail URL <thumbnail-base>/{identifier}, the
\* NOT_FOUND result after a profile lookup included; nothing carries one when
\* extraction failed.
C5_ThumbnailWheneverExtracted ==
    /\ (Returned /\ re_match(url) # <<>>)
           => info.thumbnail_url = ThumbnailTemplate(info.username)
    /\ (Done /\ re_match(url) = <<>>) => info.thumbnail_url = <<>>

\* C5 (amended): a result with status OFFLINE, ONLINE_NOT_STREAMING,
\* PRIVATE_OR_AWAY or STREAMING carries the thumbnail URL
\* <thumbnail-base>/{identifier}; the NOT_FOUND result after a profile lookup
\* carries none; nothing carries one when extraction failed.
C5_ThumbnailUnlessNotFound ==
    /\ (Returned /\ info.status # NOT_FOUND)
           => /\ info.username = Lower(re_match(url))
              /\ info.thumbnail_url = ThumbnailTemplate(info.username)
    /\ (Returned /\ info.status = NOT_FOUND) => info.thumbnail_url = <<>>
    /\ (Done /\ re_match(url) = <<>>) => info.thumbnail_url = <<>>

C5_Witness ==
    /\ Returned
    /\ url.path = <<"Z">>
    /\ info.status = PRIVATE_OR_AWAY
    /\ info.thumbnail_url = <<"https://snapshots.xcdnpro.com/thumbnails", "/", "z">>

\* the profile lookup signals absence: a 404 or another HTTP error status, an
\* unparsable or empty body, a transport fault
ProfileAbsent(r) == r.fault \/ r.status >= 400 \/ r.json.kind = "invalid"

\* C6: when the profile lookup signals absence, the result is NOT_FOUND
\* without a stream_url, and no stream-descriptor or probe request is issued.
C6_AbsentProfileIsNotFound ==
    (Len(responses) >= 1 /\ ProfileAbsent(responses[1]))
        => /\ Done
           /\ info.status = NOT_FOUND
           /\ info.stream_url = None
           /\ StepsRequested = {"profile"}
           /\ Len(responses) = 1

C6_Witness ==
    /\ Done
    /\ responses = <<Response(404, Object("True", Absent, FALSE), <<>>)>>
    /\ info.status = NOT_FOUND

\* the profile record exists (a non-empty JSON object of a successful
\* response) and its online flag is false or missing
ProfileOffline(r) ==
    /\ ~r.fault
    /\ r.status < 400
    /\ r.json.kind = "dict"
    /\ \/ r.json.online = "False"
       \/ r.json.online = Absent /\ r.json.other

\* C7: when the profile record exists and its online flag is false or
\* missing, the result is OFFLINE with the thumbnail URL
\* <thumbnail-base>/{identifier}, and no stream-descriptor or probe request
\* is issued.
C7_OfflineProfile ==
    (Len(responses) >= 1 /\ ProfileOffline(responses[1]))
        => /\ Done
           /\ info.status = OFFLINE
           /\ info.thumbnail_url = ThumbnailTemplate(Lower(re_match(url)))
           /\ info.stream_url = None
           /\ StepsRequested = {"profile"}
           /\ Len(responses) = 1

C7_Witness ==
    /\ Done
    /\ Len(responses) = 1
    /\ responses[1].status = 200
    /\ responses[1].json = Object(Absent, Absent, TRUE)
    /\ info.status = OFFLINE

\* the stream-descriptor lookup yields no playback URL: 204, 404, an empty
\* descriptor, a descriptor whose cdnURL is missing or empty
NoPlaybackUrl(r) ==
    /\ ~r.fault
    /\ \/ r.status \in {204, 404}
       \/ r.json.kind = "dict" /\ r.json.cdnURL \in {Absent, "''"}

\* C8: when the profile says online and the stream-descriptor lookup yields
\* no playback URL, the result is ONLINE_NOT_STREAMING without a stream_url
\* and the probe request is not issued.
C8_NoPlaybackUrlIsNotStreaming ==
    (Len(responses) >= 2 /\ NoPlaybackUrl(responses[2]))
        => /\ Done
           /\ info.status = ONLINE_NOT_STREAMING
           /\ info.stream_url = None
           /\ "probe" \notin StepsRequested
           /\ Len(responses) = 2

C8_Witness ==
    /\ Done
    /\ Len(responses) = 2
    /\ responses[1].json.online = "True"
    /\ responses[2].status = 204
    /\ responses[2].json = Invalid
    /\ info.status = ONLINE_NOT_STREAMING

\* C9: record_stream on a resolution that yields a status other than
\* STREAMING raises CAM4Error with that result's status and message and hands
\* nothing to Popen; Popen is called only after a STREAMING result.
C9_RecordOnlyWhenStreaming ==
    /\ (op = "record_stream" /\ Returned /\ info.status # STREAMING)
           => /\ exc.type = "CAM4Error"
              /\ exc.status = info.status
              /\ exc.message = info.error_message
              /\ process = NoProcess
    /\ process # NoProcess
           => /\ op = "record_stream"
              /\ info.status = STREAMING
              /\ process[3] = info.stream_url

C9_Witness ==
    /\ op = "record_stream"
    /\ Returned
    /\ info.status = PRIVATE_OR_AWAY
    /\ exc.type = "CAM4Error"
    /\ exc.status = PRIVATE_OR_AWAY

\* C10: a returned result carries a stream_url exactly when its status is
\* STREAMING, and the stream_url of a STREAMING result is not empty.
C10_StreamUrlIffStreaming ==
    Returned
        => /\ info.status \in PerformerStatus
           /\ (info.stream_url # None) <=> (info.status = STREAMING)
           /\ info.status = STREAMING => info.stream_url \notin {None, "''"}

C10_Witness ==
    /\ Returned
    /\ info.status = STREAMING
    /\ info.stream_url = "https://cdn/x.m3u8"

\* the requests of one step, in the order they went out
StepRequests(step) == SelectSeq(requests, LAMBDA q : q.step = step)

\* the position of a step in the chain
StepOrder(step) == CASE step = "profile" -> 1 [] step = "streamInfo" -> 2 [] step = "probe" -> 3

\* the steps go out in the order profile, stream descriptor, probe; a request
\* goes out only when every earlier step has handed back its response
Sequential ==
    /\ \A i, j \in 1..Len(requests) :
           i < j => StepOrder(requests[i].step) <= StepOrder(requests[j].step)
    /\ \A i \in 1..Len(requests) :
           /\ StepOrder(requests[i].step) <= Len(responses) + 1
           /\ StepOrder(requests[i].step) = Len(responses) + 1
                  => pc = requests[i].step
    /\ Cardinality(StepsRequested) =
           Len(responses) + (IF pc \in {"profile", "streamInfo", "probe"} THEN 1 ELSE 0)

\* the stream descriptor is asked for only after a profile that says online,
\* the probe only after a descriptor that carries a playback URL
Gated ==
    /\ "streamInfo" \in StepsRequested
           => /\ Len(responses) >= 1
              /\ ~responses[1].fault
              /\ responses[1].status < 400
              /\ responses[1].json.kind = "dict"
              /\ responses[1].json.online \in {"True", "1"}
    /\ "probe" \in StepsRequested
           => /\ Len(responses) >= 2
              /\ ~responses[2].fault
              /\ responses[2].status = 200
              /\ responses[2].json.kind = "dict"
              /\ responses[2].json.cdnURL \notin {Absent, None, "''"}
              /\ StepRequests("probe")[1].target = <<responses[2].json.cdnURL>>

\* C11 (as claimed): a call issues at most three requests, in the order
\* profile, stream descriptor, probe, each after the previous one completed,
\* the descriptor only after an online profile and the probe only after a
\* descriptor with a playback URL, and no step is requested twice, also when
\* FlareSolverr is configured and fails.
C11_ThreeRequestsNoStepTwice ==
    /\ Len(requests) <= 3
    /\ Sequential
    /\ Gated
    /\ \A step \in StepsRequested : Len(StepRequests(step)) = 1

\* C11 (amended): the three steps go out in the order profile, stream
\* descriptor, probe, each after the previous one completed, the descriptor
\* only after an online profile and the probe only after a descriptor with a
\* playback URL.  A step is requested once, except that a step whose
\* FlareSolverr request failed is requested a second time, for the same URL,
\* through the session: at most three requests without FlareSolverr and at
\* most six (two per step) with it.
C11_ThreeStepsOneRetry ==
    /\ Sequential
    /\ Gated
    /\ \A step \in StepsRequested :
           LET q == StepRequests(step)
           IN  \/ Len(q) = 1
               \/ /\ Len(q) = 2
                  /\ impl = "standalone" /\ use_flaresolverr
                  /\ q[1].via = "flaresolverr"
                  /\ q[2].via = "session"
                  /\ q[2].target = q[1].target
    /\ ~use_flaresolverr => Len(requests) <= 3
    /\ Len(requests) <= 6

C11_Witness ==
    /\ Done
    /\ Len(requests) = 6
    /\ Len(responses) = 3
    /\ info.status = STREAMING

\* C12 (as claimed): every identifier extract_username returns, and so every
\* identifier in a result or in a request URL, matches ^[a-z0-9_]+$; a URL
\* from which the pattern extracts no token makes extraction fail.
C12_IdentifierPattern ==
    /\ username # <<>> => IsIdentifier(username)
    /\ Returned => IsIdentifier(info.username)
    /\ \A i \in 1..Len(requests) :
           requests[i].step \in {"profile", "streamInfo"}
               => IsIdentifier(SubSeq(requests[i].target, 3, Len(requests[i].target) - 2))
    /\ (Done /\ re_match(url) = <<>>)
           => username = <<>> /\ info = NoInfo /\ exc.type = "CAM4Error"

\* the message of a result: "{identifier}: {text}"
MessageIs(text) == info.error_message = info.username \o <<": ", text>>

PrivateText == "Stream not accessible - performer may be in a private show or away"

\* C13: the probe tests the private-gate phrase, then status 400/403, then
\* the playlist header.  A 400 or 403 is rejected with the message of a
\* private-gate body also when the body carries #EXTM3U; a response with no
\* private-gate phrase, another status and no #EXTM3U is rejected with
\* "Invalid stream response"; both rejections give PRIVATE_OR_AWAY.
C13_ProbeRuleOrder ==
    (Len(responses) = 3 /\ ~responses[3].fault)
        => LET r == responses[3]
           IN  /\ Done
               /\ PrivateGate(r.text)
                      => info.status = PRIVATE_OR_AWAY /\ MessageIs(PrivateText)
               /\ r.status \in {400, 403}
                      => info.status = PRIVATE_OR_AWAY /\ MessageIs(PrivateText)
               /\ (~PrivateGate(r.text) /\ r.status \notin {400, 403} /\ PlaylistHeader(r.text))
                      => info.status = STREAMING
               /\ (~PrivateGate(r.text) /\ r.status \notin {400, 403} /\ ~PlaylistHeader(r.text))
                      => info.status = PRIVATE_OR_AWAY /\ MessageIs("Invalid stream response")

C13_Witness ==
    /\ Done
    /\ Len(responses) = 3
    /\ responses[3].status = 403
    /\ responses[3].text = <<"#EXTM3U", "\n">>
    /\ info.status = PRIVATE_OR_AWAY
    /\ MessageIs(PrivateText)

InFlight == pc \in {"profile", "streamInfo", "probe"}

\* request i ended in a timeout or a transport fault: a session request whose
\* step handed back an exception, or a FlareSolverr request that was retried
Faulted(i) ==
    \/ /\ requests[i].via = "session"
       /\ Len(responses) >= StepOrder(requests[i].step)
       /\ responses[StepOrder(requests[i].step)].fault
    \/ /\ requests[i].via = "flaresolverr"
       /\ i < Len(requests)
       /\ requests[i + 1].step = requests[i].step

\* the classification a fault in a step is folded into
FaultStatus(step) ==
    CASE step = "profile" -> NOT_FOUND
      [] step = "streamInfo" -> ONLINE_NOT_STREAMING
      [] step = "probe" -> PRIVATE_OR_AWAY

\* C14 (as claimed): a timeout or transport fault in a request ends the call
\* with the classification of its step (profile NOT_FOUND, stream descriptor
\* ONLINE_NOT_STREAMING, probe PRIVATE_OR_AWAY), and no request is issued
\* after the faulting one.
C14_FaultEndsCall ==
    \A i \in 1..Len(requests) :
        Faulted(i)
            => /\ i = Len(requests)
               /\ Returned
               /\ info.status = FaultStatus(requests[i].step)

\* a fault of a step's session request is folded into the step's
\* classification and is the last thing the call does on the network
SessionFaultFolded ==
    \A k \in 1..Len(responses) :
        responses[k].fault
            => /\ k = Len(responses)
               /\ Returned
               /\ requests[Len(requests)].via = "session"
               /\ StepOrder(requests[Len(requests)].step) = k
               /\ info.status = FaultStatus(requests[Len(requests)].step)
               /\ info.stream_url = None
               /\ k = 3 => info.error_message =
                              info.username \o <<": ", "Error accessing stream: ", "RequestException">>

\* a failure of a step's FlareSolverr request is not folded: the step is
\* requested again through the session
FlareSolverrFaultRetried ==
    \A i \in 1..Len(requests) :
        (requests[i].via = "flaresolverr" /\ i < Len(requests))
            => \/ requests[i + 1] = [requests[i] EXCEPT !.via = "session"]
               \/ /\ requests[i + 1].via = "flaresolverr"
                  /\ StepOrder(requests[i + 1].step) = StepOrder(requests[i].step) + 1

\* C14 (amended): a timeout or transport fault of a step's session request
\* ends the call with the classification of that step (profile NOT_FOUND,
\* stream descriptor ONLINE_NOT_STREAMING, probe PRIVATE_OR_AWAY with an
\* "Error accessing stream" message) and no request follows it; a failure of
\* a step's FlareSolverr request is followed by one request of the same step
\* through the session; a call that has a request in flight eventually ends.
C14_SessionFaultEndsCall ==
    /\ [](SessionFaultFolded /\ FlareSolverrFaultRetried)
    /\ (InFlight ~> Done)

C14_Witness ==
    /\ Returned
    /\ Len(responses) = 3
    /\ responses[3].fault
    /\ Len(requests) = 6
    /\ info.status = PRIVATE_OR_AWAY

\* the states check_performer returns where the extractor raises
EarlyStatus == {NOT_FOUND, OFFLINE, ONLINE_NOT_STREAMING}

\* C15 (as claimed): for a URL both patterns accept and the same profile and
\* stream-descriptor responses, check_performer returns NOT_FOUND, OFFLINE or
\* ONLINE_NOT_STREAMING exactly when CAM4IE._real_extract raises its expected
\* ExtractorError, with the same message text; otherwise both go on with the
\* same cdnURL and thumbnail URL; and the two standalone copies return the
\* same status for the same responses.
C15_ReplicatesExtractor ==
    (Done /\ ie_match_id(url) # <<>> /\ Len(responses) >= 1)
        => LET x == real_extract(url, responses)
           IN  /\ (info.status \in EarlyStatus) <=> (x.kind = "ExtractorError")
               /\ x.kind = "ExtractorError" => info.error_message = x.message
               /\ (Returned /\ info.status \notin EarlyStatus)
                      => /\ x.kind = "formats"
                         /\ x.cdn = cdn_url
                         /\ x.thumbnail = thumbnail_url
               /\ Classify("root", responses) = Classify("standalone", responses)
               /\ Returned => info.status = Classify(impl, responses)

====
